---------------------------- MODULE Spec2Model ----------------------------
(***************************************************************************)
(* The SQL store of the dtm transaction coordinator                        *)
(* (dtmsvr/storage/sql/sql.go): the trans_global and trans_branch_op       *)
(* tables, and the Store methods that workers run against them.  Every SQL *)
(* statement is one atomic step; a method made of several statements is    *)
(* several steps, and other workers' statements interleave between them.   *)
(*                                                                         *)
(* Time is counted in whole seconds (the resolution of the interval        *)
(* arithmetic in the SQL text); a time.Duration is counted in units of     *)
(* which Second make one second.                                           *)
(***************************************************************************)
EXTENDS Integers, Sequences, FiniteSets, TLC

\* ---------------------------------------------------------------- bounds
MaxTime == 1          \* the clock runs from 0 to MaxTime
MaxRetryInterval == 2 \* conf.RetryInterval is drawn from 1..MaxRetryInterval
MaxExpireIn == 5      \* expireIn / timeout arguments, in Duration units
MaxClaims == 2        \* owner tokens drawn per behaviour
MaxLimit == 2         \* limit argument of ResetCronTime
MinScanID == 8        \* smallest id of the rows a scan runs over
MaxScanID == 12       \* largest id of the rows a scan runs over
MaxScanLimit == 3     \* limit argument of ScanTransGlobalStores
MaxSaves == 2         \* MaySaveNewTrans calls per gid that return nil

\* time.Second, in Duration units (a Duration is finer than a second)
Second == 2

Workers == {"w1", "w2"}
Gids == {"g1", "g2"}

Statuses == {"prepared", "submitted", "succeed", "failed", "aborting", "aborted"}
\* status in ('prepared', 'aborting', 'submitted')
CronStatuses == {"prepared", "aborting", "submitted"}

\* the owner column of a row that no LockOneGlobalTrans has claimed
NoOwner == 0

VARIABLES
    now,             \* the clock shared by the database and the workers
    retryInterval,   \* conf.RetryInterval, in seconds
    trans_global,    \* the rows of table trans_global
    pc,              \* each worker's position inside the method it runs
    loc,             \* each worker's local variables and, at "done", what
                     \* its call returned
    nextOwner,       \* the number of owner tokens drawn so far
    returned,        \* history: per gid, the LockOneGlobalTrans callers that
                     \* claimed the row in the current second and got it back
    trans_branch_op, \* the rows of table trans_branch_op
    autoID,          \* the auto-increment counters of the two tables
    saves            \* history: per gid, how many MaySaveNewTrans calls
                     \* returned nil

vars == <<now, retryInterval, trans_global, pc, loc, nextOwner, returned,
          trans_branch_op, autoID, saves>>

\* what the scheduling methods leave alone
branchVars == <<trans_branch_op, autoID, saves>>
\* what the transaction methods leave alone
cronVars == <<now, retryInterval, nextOwner, returned>>

Min(a, b) == IF a < b THEN a ELSE b

\* A row of trans_global.
GlobalRow(id, gid, status, owner, nct, nci, ut) ==
    [id |-> id, gid |-> gid, status |-> status, owner |-> owner,
     next_cron_time |-> nct, next_cron_interval |-> nci, update_time |-> ut]

\* UPDATE ... SET: the rows of targets are replaced by their new versions
UpdateRows(table, targets, versions) == (table \ targets) \cup versions

\* No row: a zero TransGlobalStore.
NoRow == GlobalRow(0, "", "", NoOwner, 0, 0, 0)

\* A row of trans_branch_op.
BranchRow(id, gid, branch_id, op, status) ==
    [id |-> id, gid |-> gid, branch_id |-> branch_id, op |-> op,
     status |-> status]

\* A worker outside any call.  owner, gid, at, expire are the locals of
\* LockOneGlobalTrans, timeoutSecond and succeedCount those of
\* ResetCronTime; global is the *TransGlobalStore a caller holds, gid,
\* status and branches the arguments of LockGlobalSaveBranches and
\* MaySaveNewTrans; val and hasRemaining hold what a finished call
\* returned.
NoLoc == [owner |-> NoOwner, gid |-> "", at |-> 0, expire |-> 0,
          timeoutSecond |-> 0, succeedCount |-> 0,
          val |-> "", hasRemaining |-> FALSE,
          global |-> NoRow, status |-> "", branches |-> <<>>,
          position |-> <<>>, limit |-> 0, globals |-> <<>>, calls |-> 0,
          rowsAffected |-> 0, atStart |-> {}]

\* A call returns: the worker holds the result until it moves on.  (A
\* worker at "holding" holds a *TransGlobalStore it read; at "failed" it
\* holds the one a ChangeGlobalStatus that panicked has left it.)
Return(w, result) ==
    /\ pc' = [pc EXCEPT ![w] = "done"]
    /\ loc' = [loc EXCEPT ![w] = result]

\* The caller has taken the result and is free to call again.
Resume(w) ==
    /\ pc[w] \in {"done", "holding", "failed"}
    /\ pc' = [pc EXCEPT ![w] = "idle"]
    /\ loc' = [loc EXCEPT ![w] = NoLoc]
    /\ UNCHANGED <<now, retryInterval, trans_global, nextOwner, returned,
                   branchVars>>

\* ------------------------------------------------------------- the clock
Tick ==
    /\ now < MaxTime
    /\ now' = now + 1
    /\ returned' = [g \in Gids |-> {}]
    /\ UNCHANGED <<retryInterval, trans_global, pc, loc, nextOwner,
                   branchVars>>

\* ------------------------------------------------- LockOneGlobalTrans
\* expire := int(expireIn / time.Second)
ExpireSeconds(expireIn) == expireIn \div Second

\* dtmutil.GetNextTime(second): the time `second` seconds from now
GetNextTime(second) == now + second

\* next_cron_time < now() + interval expire second
\*   and status in ('prepared', 'aborting', 'submitted')
WhereDue_AnyStatus(r, expire) == r.next_cron_time < now + expire
WhereDue(r, expire) ==
    /\ r.next_cron_time < now + expire
    /\ r.status \in CronStatuses

\* shortuuid.New(): a token no earlier call drew
NewOwner == nextOwner + 1

\* Select("owner", "next_cron_time").Updates({Owner: owner,
\*     NextCronTime: GetNextTime(conf.RetryInterval)})
ClaimSet_OwnerOnly(r, owner) == [r EXCEPT !.owner = owner]
ClaimSet_NoDelay(r, owner) ==
    [r EXCEPT !.owner = owner, !.next_cron_time = GetNextTime(0)]
ClaimSet(r, owner) ==
    [r EXCEPT !.owner = owner, !.next_cron_time = GetNextTime(retryInterval)]

\* The conditional update affected no row: return nil.
LockOneNone(w, expireIn) ==
    LET expire == ExpireSeconds(expireIn) IN
    /\ pc[w] = "idle"
    /\ {r \in trans_global : WhereDue(r, expire)} = {}
    /\ Return(w, [NoLoc EXCEPT !.val = "nil"])
    /\ UNCHANGED <<now, retryInterval, trans_global, nextOwner, returned,
                   branchVars>>

\* The conditional update, limited to one row and in no order, affected a
\* row: any of the rows that match.
ClaimOne(w, expireIn, owner) ==
    LET expire == ExpireSeconds(expireIn) IN
    /\ pc[w] = "idle"
    /\ \E r \in {x \in trans_global : WhereDue(x, expire)} :
         /\ trans_global' =
                UpdateRows(trans_global, {r}, {ClaimSet(r, owner)})
         /\ loc' = [loc EXCEPT ![w] = [NoLoc EXCEPT !.owner = owner,
                        !.gid = r.gid, !.at = now, !.expire = expire]]
    /\ pc' = [pc EXCEPT ![w] = "readback"]
    /\ UNCHANGED <<now, retryInterval, returned,
                   branchVars>>

\* The update of a call, while the behaviour has tokens left to draw.
LockOneUpdate(w, expireIn) ==
    /\ nextOwner < MaxClaims
    /\ ClaimOne(w, expireIn, NewOwner)
    /\ nextOwner' = NewOwner

\* The tokens that are in no row and that no call in progress holds: one
\* of them is to every comparison the store makes what a token never
\* drawn is.
FreeOwners ==
    (1..(Cardinality(Gids) + Cardinality(Workers) + 1))
       \ ({r.owner : r \in trans_global} \cup {loc[w].owner : w \in Workers})

\* The update of a call in a behaviour where calls never stop.
LockOneUpdateAgain(w, expireIn) ==
    /\ FreeOwners # {}
    /\ ClaimOne(w, expireIn, CHOOSE o \in FreeOwners : \A p \in FreeOwners : o <= p)
    /\ UNCHANGED nextOwner

\* db.Must().Where("owner=?", owner).First(global); return global
\* Must() turns "record not found" into a panic.
LockOneReadBack(w) ==
    LET found == {r \in trans_global : r.owner = loc[w].owner} IN
    /\ pc[w] = "readback"
    /\ \/ /\ found = {}
          /\ Return(w, [NoLoc EXCEPT !.val = "panic"])
          /\ UNCHANGED returned
       \/ \E r \in found :
            /\ Return(w, [NoLoc EXCEPT !.val = r.gid])
            /\ returned' =
                 IF loc[w].at = now
                 THEN [returned EXCEPT ![r.gid] =
                         @ \cup {[w |-> w, expire |-> loc[w].expire]}]
                 ELSE returned
    /\ UNCHANGED <<now, retryInterval, trans_global, nextOwner,
                   branchVars>>

\* ------------------------------------------------------ ResetCronTime
\* next_cron_time > now() + interval timeoutSecond second
\*   and status in ('prepared', 'aborting', 'submitted')
WhereOverdue_AnyStatus(r, timeoutSecond) ==
    r.next_cron_time > now + timeoutSecond
WhereOverdue(r, timeoutSecond) ==
    /\ r.next_cron_time > now + timeoutSecond
    /\ r.status \in CronStatuses

\* Select("next_cron_time").Updates({NextCronTime: GetNextTime(0)})
ResetSet(r) == [r EXCEPT !.next_cron_time = GetNextTime(0)]

\* if succeedCount == limit { ... count ... }
NeedsCount_Never(succeedCount, limit) == FALSE
NeedsCount(succeedCount, limit) == succeedCount = limit

\* The update, limited to `limit` rows; it returns at once unless the page
\* was full.
ResetUpdate(w, timeout, limit) ==
    LET timeoutSecond == ExpireSeconds(timeout)
        overdue == {r \in trans_global : WhereOverdue(r, timeoutSecond)}
        n == Min(limit, Cardinality(overdue))
    IN
    /\ pc[w] = "idle"
    /\ \E page \in {p \in SUBSET overdue : Cardinality(p) = n} :
         trans_global' =
            UpdateRows(trans_global, page, {ResetSet(r) : r \in page})
    /\ IF NeedsCount(n, limit)
       THEN /\ pc' = [pc EXCEPT ![w] = "count"]
            /\ loc' = [loc EXCEPT ![w] = [NoLoc EXCEPT
                          !.timeoutSecond = timeoutSecond, !.succeedCount = n]]
       ELSE Return(w, [NoLoc EXCEPT !.succeedCount = n,
                                    !.hasRemaining = FALSE])
    /\ UNCHANGED <<now, retryInterval, nextOwner, returned,
                   branchVars>>

\* The existence check after a full page: count > 0 sets hasRemaining.
ResetCount(w) ==
    LET count == Cardinality({r \in trans_global :
                                 WhereOverdue(r, loc[w].timeoutSecond)})
    IN
    /\ pc[w] = "count"
    /\ Return(w, [NoLoc EXCEPT !.succeedCount = loc[w].succeedCount,
                               !.hasRemaining = (count > 0)])
    /\ UNCHANGED <<now, retryInterval, trans_global, nextOwner, returned,
                   branchVars>>

\* ------------------------------------------------ the unique keys
\* trans_global is unique on gid, trans_branch_op on (gid, branch_id, op).
GlobalKey(r) == r.gid
BranchKey(b) == <<b.gid, b.branch_id, b.op>>

\* INSERT ... ON CONFLICT DO NOTHING of a list of branches, in order: a
\* branch whose key exists is skipped, another gets the next id.
RECURSIVE InsertIgnore(_, _, _)
InsertIgnore(table, id, branches) ==
    IF branches = <<>> THEN [table |-> table, id |-> id]
    ELSE LET b == Head(branches) IN
         IF \E x \in table : BranchKey(x) = BranchKey(b)
         THEN InsertIgnore(table, id, Tail(branches))
         ELSE InsertIgnore(table \cup {[b EXCEPT !.id = id + 1]}, id + 1,
                           Tail(branches))

\* INSERT ... ON CONFLICT UPDATE ALL (gorm's Save of a slice), in order: a
\* branch whose key exists overwrites that row's other columns and keeps
\* its id, another gets the next id.
RECURSIVE Upsert(_, _, _)
Upsert(table, id, branches) ==
    IF branches = <<>> THEN [table |-> table, id |-> id]
    ELSE LET b == Head(branches)
             old == {x \in table : BranchKey(x) = BranchKey(b)}
         IN
         IF old # {}
         THEN Upsert((table \ old) \cup {[b EXCEPT !.id = x.id] : x \in old},
                     id, Tail(branches))
         ELSE Upsert(table \cup {[b EXCEPT !.id = id + 1]}, id + 1,
                     Tail(branches))

\* ------------------------------------------------------ the arguments
\* The global a caller registers: prepared or submitted, due one retry
\* interval from now.
NewGlobals(gid) ==
    {GlobalRow(0, gid, IF gid = "g1" THEN "prepared" ELSE "submitted",
               NoOwner, GetNextTime(retryInterval), retryInterval, now)}

\* The branches registered with a new global.
NewBranches(gid) ==
    IF gid = "g1"
    THEN {<<>>,
          <<BranchRow(0, gid, "01", "compensate", "prepared"),
            BranchRow(0, gid, "01", "action", "prepared")>>}
    ELSE {<<>>}

\* The branches appended or rewritten under the lock.
MoreBranches(gid) ==
    IF gid = "g1"
    THEN {<<BranchRow(0, gid, "02", "action", "prepared")>>,
          <<BranchRow(0, gid, "01", "action", "succeed")>>}
    ELSE {<<BranchRow(0, gid, "02", "action", "prepared")>>}

\* The statuses callers move a global to, and those they expect when they
\* append branches.
NewStatuses == {"submitted", "aborting", "succeed"}
ExpectedStatuses == {"prepared", "submitted"}

\* The column lists callers pass to ChangeGlobalStatus.
UpdateColumns == {{"status"}, {"status", "update_time"}}

\* ----------------------------------------------- FindTransGlobalStore
\* Where("gid=?", gid).First(trans); nil when no row is found
FindTransGlobalStore(w, gid) ==
    LET found == {r \in trans_global : r.gid = gid} IN
    /\ pc[w] = "idle"
    /\ \/ /\ found = {}
          /\ Return(w, [NoLoc EXCEPT !.val = "nil", !.gid = gid])
       \/ \E r \in found :
            /\ pc' = [pc EXCEPT ![w] = "holding"]
            /\ loc' = [loc EXCEPT ![w] = [NoLoc EXCEPT !.global = r]]
    /\ UNCHANGED <<trans_global, cronVars, branchVars>>

\* ---------------------------------------------------- row locks
\* clause.Locking{Strength: "UPDATE"}: the row of gid is locked by another
\* worker's open LockGlobalSaveBranches transaction.
Locked_Never(w, gid) == FALSE
Locked_OtherGid(w, gid) ==
    \E v \in Workers \ {w} : pc[v] = "save" /\ loc[v].gid # gid
Locked(w, gid) ==
    \E v \in Workers \ {w} : pc[v] = "save" /\ loc[v].gid = gid

\* Another worker's open MaySaveNewTrans transaction has inserted gid and
\* not yet committed: an insert of the same gid waits for it.
Inserting(w, gid) ==
    \E v \in Workers \ {w} : pc[v] = "branches" /\ loc[v].global.gid = gid

\* ------------------------------------------------ ChangeGlobalStatus
\* Where("status=? and gid=?", old, global.Gid)
WhereStatusGid_GidOnly(r, old, gid) == r.gid = gid
WhereStatusGid(r, old, gid) == r.status = old /\ r.gid = gid

\* Select(updates).Updates(global): the listed columns take the values of
\* the caller's record.
ChangeSet_KeepStatus(r, global, updates) ==
    [r EXCEPT !.update_time =
                 IF "update_time" \in updates THEN global.update_time ELSE @]
ChangeSet_WithCronTime(r, global, updates) ==
    [r EXCEPT !.status = IF "status" \in updates THEN global.status ELSE @,
              !.next_cron_time = global.next_cron_time,
              !.update_time =
                 IF "update_time" \in updates THEN global.update_time ELSE @]
ChangeSet(r, global, updates) ==
    [r EXCEPT !.status = IF "status" \in updates THEN global.status ELSE @,
              !.update_time =
                 IF "update_time" \in updates THEN global.update_time ELSE @]

\* old := global.Status; global.Status = newStatus; the conditional
\* update; ErrNotFound when it affected no row.  The caller asks for a
\* change of status, and has set UpdateTime.  A caller that recovers from
\* the panic is left with the record, and with what old was.
ChangeGlobalStatus(w, newStatus, updates) ==
    LET old == loc[w].global.status
        global == [loc[w].global EXCEPT !.status = newStatus,
                                        !.update_time = now]
        match == {r \in trans_global : WhereStatusGid(r, old, global.gid)}
    IN
    /\ pc[w] = "holding"
    /\ newStatus # old
    /\ \A r \in match : ~ Locked(w, r.gid)
    /\ trans_global' =
          UpdateRows(trans_global, match,
                     {ChangeSet(r, global, updates) : r \in match})
    /\ loc' = [loc EXCEPT ![w] = [NoLoc EXCEPT !.global = global,
                 !.status = IF match = {} THEN old ELSE "",
                 !.val = IF match = {} THEN "NotFound" ELSE ""]]
    /\ pc' = [pc EXCEPT ![w] = IF match = {} THEN "failed" ELSE "holding"]
    /\ UNCHANGED <<cronVars, branchVars>>

\* ----------------------------------------------------- TouchCronTime
\* Where("status=? and gid=?", global.Status, global.Gid)
WhereTouch_GidOnly(r, global) == r.gid = global.gid
WhereTouch(r, global) == r.status = global.status /\ r.gid = global.gid

\* Select("next_cron_time", "update_time", "next_cron_interval")
\*   .Updates(global)
TouchSet(r, global) ==
    [r EXCEPT !.next_cron_time = global.next_cron_time,
              !.update_time = global.update_time,
              !.next_cron_interval = global.next_cron_interval]

\* The interval a caller records, and the times it reschedules to: now,
\* or that interval from now.
TouchIntervals == {2}
TouchTimes == {GetNextTime(second) : second \in {0} \cup TouchIntervals}

\* The three assignments to the caller's record, then the update, whose
\* RowsAffected nobody reads.  The caller holds a record it has read, or
\* the one a failed ChangeGlobalStatus has left it.
TouchCronTime(w, nextCronInterval, nextCronTime) ==
    LET global == [loc[w].global EXCEPT !.update_time = GetNextTime(0),
                                        !.next_cron_time = nextCronTime,
                                        !.next_cron_interval = nextCronInterval]
        match == {r \in trans_global : WhereTouch(r, global)}
    IN
    /\ pc[w] \in {"holding", "failed"}
    /\ loc[w].val # "touched"
    /\ \A r \in match : ~ Locked(w, r.gid)
    /\ trans_global' =
          UpdateRows(trans_global, match, {TouchSet(r, global) : r \in match})
    /\ loc' = [loc EXCEPT ![w] = [loc[w] EXCEPT !.global = global,
                                               !.val = "touched",
                                               !.rowsAffected = Cardinality(match)]]
    /\ UNCHANGED <<pc, cronVars, branchVars>>

\* ---------------------------------------------------- MaySaveNewTrans
\* if dbr.RowsAffected <= 0 { return storage.ErrUniqueConflict }
IsConflict_Never(rowsAffected) == FALSE
IsConflict(rowsAffected) == rowsAffected <= 0

\* dbGet().Transaction(...): what a statement of an open transaction has
\* inserted is not in the table the others read until the commit.
Uncommitted_Visible(table, row) == table \cup {row}
Uncommitted(table, row) == table

\* Create(global) with OnConflict{DoNothing: true}, inside the transaction.
SaveGlobal(w, global, branches) ==
    LET rowsAffected ==
            IF \E r \in trans_global : GlobalKey(r) = GlobalKey(global)
            THEN 0 ELSE 1
        gid == global.gid
    IN
    /\ pc[w] = "idle"
    /\ saves[gid] < MaxSaves
    /\ ~ Inserting(w, gid)
    /\ IF IsConflict(rowsAffected)
       THEN /\ Return(w, [NoLoc EXCEPT !.val = "UniqueConflict", !.gid = gid])
            /\ UNCHANGED <<autoID, saves>>
       ELSE /\ pc' = [pc EXCEPT ![w] = "branches"]
            /\ loc' = [loc EXCEPT ![w] = [NoLoc EXCEPT
                  !.global = IF rowsAffected = 1
                             THEN [global EXCEPT !.id = autoID.global + 1]
                             ELSE global,
                  !.val = IF rowsAffected = 1 THEN "inserted" ELSE "",
                  !.branches = branches]]
            /\ autoID' = [autoID EXCEPT !.global = @ + rowsAffected]
            /\ UNCHANGED saves
    /\ trans_global' =
          IF IsConflict(rowsAffected) THEN trans_global
          ELSE Uncommitted(trans_global,
                           [global EXCEPT !.id = autoID.global + 1])
    /\ UNCHANGED <<trans_branch_op, cronVars>>

\* Create(&branches) with OnConflict{DoNothing: true} when there are any;
\* return nil: the transaction commits, and what it inserted is visible.
SaveBranches(w) ==
    LET ins == InsertIgnore(trans_branch_op, autoID.branch, loc[w].branches)
    IN
    /\ pc[w] = "branches"
    /\ trans_global' = IF loc[w].val = "inserted"
                       THEN trans_global \cup {loc[w].global}
                       ELSE trans_global
    /\ trans_branch_op' = ins.table
    /\ autoID' = [autoID EXCEPT !.branch = ins.id]
    /\ saves' = [saves EXCEPT ![loc[w].global.gid] = @ + 1]
    /\ Return(w, [NoLoc EXCEPT !.val = "ok"])
    /\ UNCHANGED cronVars

\* --------------------------------------------- LockGlobalSaveBranches
\* if dbr.Error == nil { dbr = tx.Save(branches) }
SelectFound_Always(match) == TRUE
SelectFound(match) == match # {}

\* The locking read inside the transaction: First(g) with
\* Where("gid=? and status=?"); gorm.ErrRecordNotFound becomes
\* storage.ErrNotFound, the transaction rolls back, E2P panics.
LockSelect(w, gid, status, branches) ==
    LET match == {r \in trans_global : r.gid = gid /\ r.status = status} IN
    /\ pc[w] = "idle"
    /\ \A r \in match : ~ Locked(w, r.gid)
    /\ IF SelectFound(match)
       THEN /\ pc' = [pc EXCEPT ![w] = "save"]
            /\ loc' = [loc EXCEPT ![w] = [NoLoc EXCEPT !.gid = gid,
                          !.status = status, !.branches = branches]]
       ELSE Return(w, [NoLoc EXCEPT !.val = "NotFound", !.gid = gid])
    /\ UNCHANGED <<trans_global, cronVars, branchVars>>

\* tx.Save(branches), then the commit that makes the branches visible and
\* releases the lock.
LockSave(w) ==
    LET up == Upsert(trans_branch_op, autoID.branch, loc[w].branches) IN
    /\ pc[w] = "save"
    /\ trans_branch_op' = up.table
    /\ autoID' = [autoID EXCEPT !.branch = up.id]
    /\ Return(w, [NoLoc EXCEPT !.val = "ok"])
    /\ UNCHANGED <<trans_global, saves, cronVars>>

\* ------------------------------------------ FindBranches, UpdateBranches
\* Order("id asc").Find(&branches)
RECURSIVE OrderAsc(_)
OrderAsc(rows) ==
    IF rows = {} THEN <<>>
    ELSE LET first == CHOOSE r \in rows : \A q \in rows : r.id <= q.id
         IN <<first>> \o OrderAsc(rows \ {first})

\* Where("gid=?", gid).Order("id asc").Find(&branches)
FindBranches(w, gid) ==
    /\ pc[w] = "idle"
    /\ Return(w, [NoLoc EXCEPT !.val = "branches", !.gid = gid,
                     !.branches = OrderAsc({b \in trans_branch_op : b.gid = gid})])
    /\ UNCHANGED <<trans_global, cronVars, branchVars>>

\* DoUpdates: clause.AssignmentColumns(updates): the stored row takes the
\* listed columns of the branch that conflicts with it.  (Of the columns a
\* caller lists the rows of the model keep status.)
ConflictRow_AllColumns(x, b, updates) == b
ConflictRow(x, b, updates) ==
    [x EXCEPT !.status = IF "status" \in updates THEN b.status ELSE @]

\* INSERT ... ON CONFLICT ON CONSTRAINT trans_branch_op_pkey DO UPDATE, in
\* order: a branch whose key exists updates that row, another gets the
\* next id.
RECURSIVE UpsertColumns(_, _, _, _)
UpsertColumns(table, id, branches, updates) ==
    IF branches = <<>> THEN [table |-> table, id |-> id]
    ELSE LET b == Head(branches)
             old == {x \in table : BranchKey(x) = BranchKey(b)}
         IN
         IF old # {}
         THEN UpsertColumns((table \ old) \cup
                               {ConflictRow(x, b, updates) : x \in old},
                            id, Tail(branches), updates)
         ELSE UpsertColumns(table \cup {[b EXCEPT !.id = id + 1]}, id + 1,
                            Tail(branches), updates)

\* The column lists callers pass to UpdateBranches.
BranchColumns == {{"status"}, {"update_time"}}

\* One statement, outside any transaction and with no lock on the global
\* row.  (The count it returns is the database's RowsAffected, which the
\* model does not keep.)
UpdateBranches(w, branches, updates) ==
    LET up == UpsertColumns(trans_branch_op, autoID.branch, branches, updates)
    IN
    /\ pc[w] = "idle"
    /\ trans_branch_op' = up.table
    /\ autoID' = [autoID EXCEPT !.branch = up.id]
    /\ Return(w, [NoLoc EXCEPT !.val = "updated", !.gid = Head(branches).gid,
                     !.branches = branches])
    /\ UNCHANGED <<trans_global, saves, cronVars>>

\* ------------------------------------------------------ specifications
\* Rows as earlier calls of the store can have left them: every status the
\* scheduling predicates name, and one they do not.
InitStatus(g) ==
    IF g = "g1" THEN {"prepared", "submitted"} ELSE {"aborting", "succeed"}

InitRows ==
    {[g \in Gids |-> GlobalRow(IF g = "g1" THEN 1 ELSE 2, g, st[g], NoOwner,
                               t[g], 1, 0)] :
        st \in {f \in [Gids -> Statuses] : \A g \in Gids : f[g] \in InitStatus(g)},
        t \in [Gids -> 0..MaxTime]}

InitCron ==
    /\ now = 0
    /\ retryInterval \in 1..MaxRetryInterval
    /\ \E f \in InitRows : trans_global = {f[g] : g \in Gids}
    /\ pc = [w \in Workers |-> "idle"]
    /\ loc = [w \in Workers |-> NoLoc]
    /\ nextOwner = 0
    /\ returned = [g \in Gids |-> {}]
    /\ trans_branch_op = {}
    /\ autoID = [global |-> Cardinality(Gids), branch |-> 0]
    /\ saves = [g \in Gids |-> 0]

NextClaim ==
    \/ Tick
    \/ \E w \in Workers, expireIn \in 0..MaxExpireIn : LockOneNone(w, expireIn)
    \/ \E w \in Workers, expireIn \in 0..MaxExpireIn : LockOneUpdate(w, expireIn)
    \/ \E w \in Workers : LockOneReadBack(w)
    \/ \E w \in Workers : Resume(w)

\* Workers polling LockOneGlobalTrans while the clock runs.
SpecClaim == InitCron /\ [][NextClaim]_vars

NextRepair ==
    \/ Tick
    \/ \E w \in Workers, timeout \in 0..MaxExpireIn, limit \in 1..MaxLimit :
         ResetUpdate(w, timeout, limit)
    \/ \E w \in Workers : ResetCount(w)
    \/ \E w \in Workers : Resume(w)

\* Workers running ResetCronTime while the clock runs.
SpecRepair == InitCron /\ [][NextRepair]_vars

\* One stored transaction, scheduled for time 1; the other gid is not
\* stored.
InitTouch ==
    /\ now = 0
    /\ retryInterval = 1
    /\ \E f \in InitRows :
          /\ f["g1"].next_cron_time = 1
          /\ trans_global = {f["g1"]}
    /\ pc = [w \in Workers |-> "idle"]
    /\ loc = [w \in Workers |-> NoLoc]
    /\ nextOwner = 0
    /\ returned = [g \in Gids |-> {}]
    /\ trans_branch_op = {}
    /\ autoID = [global |-> 1, branch |-> 0]
    /\ saves = [g \in Gids |-> 0]

NextTouch ==
    \/ Tick
    \/ \E w \in Workers, gid \in Gids : FindTransGlobalStore(w, gid)
    \/ \E w \in Workers, newStatus \in NewStatuses, updates \in UpdateColumns :
         ChangeGlobalStatus(w, newStatus, updates)
    \/ \E w \in Workers, nextCronInterval \in TouchIntervals :
         \E nextCronTime \in TouchTimes :
            TouchCronTime(w, nextCronInterval, nextCronTime)
    \/ \E w \in Workers : Resume(w)

\* Workers moving the status of stored transactions and rescheduling them
\* while the clock runs.
SpecTouch == InitTouch /\ [][NextTouch]_vars

\* Two transactions that stay in a scheduled status, both due.
InitLive ==
    /\ now = 0
    /\ retryInterval = 1
    /\ trans_global = {GlobalRow(1, "g1", "prepared", NoOwner, 0, 1, 0),
                       GlobalRow(2, "g2", "submitted", NoOwner, 0, 1, 0)}
    /\ pc = [w \in Workers |-> "idle"]
    /\ loc = [w \in Workers |-> NoLoc]
    /\ nextOwner = 0
    /\ returned = [g \in Gids |-> {}]
    /\ trans_branch_op = {}
    /\ autoID = [global |-> Cardinality(Gids), branch |-> 0]
    /\ saves = [g \in Gids |-> 0]

\* A worker polls: the update of one LockOneGlobalTrans call.
Poll(w) ==
    \E expireIn \in 0..MaxExpireIn :
        LockOneNone(w, expireIn) \/ LockOneUpdateAgain(w, expireIn)

NextLive ==
    \/ Tick
    \/ \E w \in Workers : Poll(w)
    \/ \E w \in Workers : LockOneReadBack(w)
    \/ \E w \in Workers : Resume(w)

\* Workers that keep polling LockOneGlobalTrans while the clock runs: the
\* clock advances, and every worker goes on with its call and calls again.
SpecLive ==
    /\ InitLive /\ [][NextLive]_vars
    /\ WF_vars(Tick)
    /\ \A w \in Workers :
          /\ WF_vars(Poll(w))
          /\ WF_vars(LockOneReadBack(w))
          /\ WF_vars(Resume(w))

\* Stored transactions as InitCron has them, scheduled for time 1, each
\* with a branch.
InitSchedule ==
    /\ now = 0
    /\ retryInterval = 1
    /\ \E f \in InitRows :
          /\ \A g \in Gids : f[g].next_cron_time = 1
          /\ trans_global = {f[g] : g \in Gids}
    /\ pc = [w \in Workers |-> "idle"]
    /\ loc = [w \in Workers |-> NoLoc]
    /\ nextOwner = 0
    /\ returned = [g \in Gids |-> {}]
    /\ trans_branch_op = {BranchRow(1, "g1", "01", "action", "prepared"),
                          BranchRow(2, "g2", "01", "action", "succeed")}
    /\ autoID = [global |-> Cardinality(Gids), branch |-> 2]
    /\ saves = [g \in Gids |-> 0]

\* The durations the two kinds of workers pass: none, or the longest.
ScheduleDurations == {0, MaxExpireIn}

NextSchedule ==
    \/ Tick
    \/ \E w \in Workers, expireIn \in ScheduleDurations : LockOneNone(w, expireIn)
    \/ \E w \in Workers, expireIn \in ScheduleDurations :
         LockOneUpdate(w, expireIn)
    \/ \E w \in Workers : LockOneReadBack(w)
    \/ \E w \in Workers, timeout \in ScheduleDurations, limit \in 1..MaxLimit :
         ResetUpdate(w, timeout, limit)
    \/ \E w \in Workers : ResetCount(w)
    \/ \E w \in Workers : Resume(w)

\* Workers polling LockOneGlobalTrans and workers running ResetCronTime,
\* while the clock runs.
SpecSchedule == InitSchedule /\ [][NextSchedule]_vars

Init ==
    /\ now = 0
    /\ retryInterval = 1
    /\ trans_global = {}
    /\ trans_branch_op = {}
    /\ autoID = [global |-> 0, branch |-> 0]
    /\ pc = [w \in Workers |-> "idle"]
    /\ loc = [w \in Workers |-> NoLoc]
    /\ nextOwner = 0
    /\ returned = [g \in Gids |-> {}]
    /\ saves = [g \in Gids |-> 0]

Next ==
    \/ \E w \in Workers, gid \in Gids : FindTransGlobalStore(w, gid)
    \/ \E w \in Workers, newStatus \in NewStatuses, updates \in UpdateColumns :
         ChangeGlobalStatus(w, newStatus, updates)
    \/ \E w \in Workers, gid \in Gids :
         \E global \in NewGlobals(gid), branches \in NewBranches(gid) :
            SaveGlobal(w, global, branches)
    \/ \E w \in Workers : SaveBranches(w)
    \/ \E w \in Workers, gid \in Gids, status \in ExpectedStatuses :
         \E branches \in MoreBranches(gid) :
            LockSelect(w, gid, status, branches)
    \/ \E w \in Workers : LockSave(w)
    \/ \E w \in Workers : Resume(w)

\* Workers registering transactions, moving their status and appending
\* branches, from an empty store.
Spec == Init /\ [][Next]_vars

\* ---------------------------------------------------------------------
\* ScanTransGlobalStores
\* ---------------------------------------------------------------------

\* math.MaxInt64, at the width of the integers of the model: above every id.
MathMaxInt64 == 2147483647

\* A position is the string the caller passes by pointer: here the
\* sequence of its decimal digits, "" being <<>>.
RECURSIVE Sprintf_d(_)
Sprintf_d(n) ==
    IF n < 10 THEN <<n>> ELSE Sprintf_d(n \div 10) \o <<n % 10>>

RECURSIVE MustAtoi(_)
MustAtoi(str) ==
    IF Len(str) = 0 THEN 0
    ELSE 10 * MustAtoi(SubSeq(str, 1, Len(str) - 1)) + str[Len(str)]

\* Where("id < ?", lid)
WhereBelow_OrEqual(r, lid) == r.id <= lid
WhereBelow(r, lid) == r.id < lid

\* Order("id desc").Limit(limit).Find(&globals)
RECURSIVE OrderDescLimit(_, _)
OrderDescLimit(rows, limit) ==
    IF rows = {} \/ limit = 0 THEN <<>>
    ELSE LET top == CHOOSE r \in rows : \A q \in rows : q.id <= r.id
         IN <<top>> \o OrderDescLimit(rows \ {top}, limit - 1)

IsLastPage_Eager(rowsAffected, limit) == rowsAffected <= limit

\* dbr.RowsAffected < limit
IsLastPage(rowsAffected, limit) == rowsAffected < limit

\* One call.  The caller starts from the empty position and passes the
\* position it got back while that one is not empty, with the same limit;
\* it keeps the pages it got, one after the other.  (atStart is history:
\* the ids that were stored when the first call ran.)
ScanTransGlobalStores(w, limit) ==
    LET position == loc[w].position
        lid == IF position # <<>> THEN MustAtoi(position) ELSE MathMaxInt64
        globals == OrderDescLimit({r \in trans_global : WhereBelow(r, lid)}, limit)
        rowsAffected == Len(globals)
        newPosition == IF IsLastPage(rowsAffected, limit) THEN <<>>
                       ELSE Sprintf_d(globals[Len(globals)].id)
    IN
    /\ \/ pc[w] = "idle"
       \/ pc[w] = "scan" /\ limit = loc[w].limit
    /\ loc' = [loc EXCEPT ![w] = [NoLoc EXCEPT
                  !.position = newPosition,
                  !.limit = limit,
                  !.globals = loc[w].globals \o globals,
                  !.atStart = IF pc[w] = "idle"
                              THEN {r.id : r \in trans_global}
                              ELSE loc[w].atStart,
                  !.calls = loc[w].calls + 1]]
    /\ pc' = [pc EXCEPT ![w] = IF newPosition = <<>> THEN "done" ELSE "scan"]
    /\ UNCHANGED <<trans_global, cronVars, branchVars>>

\* The ids of the stored rows: any part of MinScanID..MaxScanID.
ScanRows(ids) ==
    {GlobalRow(id, ToString(id), "succeed", NoOwner, 0, 0, 0) : id \in ids}

InitScan ==
    /\ now = 0
    /\ retryInterval = 1
    /\ \E ids \in SUBSET (MinScanID..MaxScanID) :
          /\ trans_global = ScanRows(ids)
          /\ autoID = [global |-> MaxScanID, branch |-> 0]
    /\ trans_branch_op = {}
    /\ pc = [w \in Workers |-> "idle"]
    /\ loc = [w \in Workers |-> NoLoc]
    /\ nextOwner = 0
    /\ returned = [g \in Gids |-> {}]
    /\ saves = [g \in Gids |-> 0]

NextScan ==
    \/ \E w \in Workers, limit \in 1..MaxScanLimit :
         ScanTransGlobalStores(w, limit)
    \/ \E w \in Workers : Resume(w)

\* Workers paging through a store nobody writes to.
SpecScan == InitScan /\ [][NextScan]_vars

NextBranches ==
    \/ \E w \in Workers, gid \in Gids :
         \E global \in NewGlobals(gid), branches \in NewBranches(gid) :
            SaveGlobal(w, global, branches)
    \/ \E w \in Workers : SaveBranches(w)
    \/ \E w \in Workers, gid \in Gids, status \in ExpectedStatuses :
         \E branches \in MoreBranches(gid) :
            LockSelect(w, gid, status, branches)
    \/ \E w \in Workers : LockSave(w)
    \/ \E w \in Workers, gid \in Gids, updates \in BranchColumns :
         \E branches \in MoreBranches(gid) :
            UpdateBranches(w, branches, updates)
    \/ \E w \in Workers, gid \in Gids : FindBranches(w, gid)
    \/ \E w \in Workers : Resume(w)

\* Workers registering transactions and writing and reading their
\* branches, from an empty store.
SpecBranches == Init /\ [][NextBranches]_vars

NextScanCreate ==
    \/ \E w \in Workers, limit \in 1..MaxScanLimit :
         ScanTransGlobalStores(w, limit)
    \/ \E w \in Workers, gid \in Gids :
         \E global \in NewGlobals(gid), branches \in NewBranches(gid) :
            SaveGlobal(w, global, branches)
    \/ \E w \in Workers : SaveBranches(w)
    \/ \E w \in Workers : Resume(w)

\* Workers paging through the store while others register transactions.
SpecScanCreate == InitScan /\ [][NextScanCreate]_vars

\* =====================================================================
\* Claims about the transaction methods, checked under Spec
\* =====================================================================

\* The rows of gid, and those among them in a given status.
RowsOf(table, gid) == {r \in table : r.gid = gid}
RowsIn(table, gid, status) ==
    {r \in table : r.gid = gid /\ r.status = status}

C2_Step(w) ==
    LET g == loc[w].global IN
    pc'[w] = "holding" =>
       \A v \in Workers \ {w} :
          (/\ pc[v] = "holding"
           /\ loc[v].global.gid = g.gid
           /\ loc[v].global.status = g.status)
          => /\ loc'[v] = loc[v]
             /\ RowsIn(trans_global', g.gid, loc'[v].global.status) = {}

\* C2: when two workers hold the same gid with the same expected old
\* status and one's ChangeGlobalStatus takes effect, the stored status has
\* left that old status, so the other's conditional update matches no row
\* (it fails with NotFound): the two never both succeed on one transition.
C2_CasExclusive ==
    [][\A w \in Workers, newStatus \in NewStatuses, updates \in UpdateColumns :
          ChangeGlobalStatus(w, newStatus, updates) => C2_Step(w)]_vars

\* Two workers raced on one transition: one holds the new status, which is
\* the stored one, the other was left with NotFound.
C2_Witness ==
    \E w, v \in Workers :
        /\ pc[w] = "holding"
        /\ pc[v] = "failed"
        /\ loc[v].global.gid = loc[w].global.gid
        /\ RowsIn(trans_global, loc[w].global.gid, loc[w].global.status) # {}
        /\ loc[v].global.status # loc[w].global.status

C3_Unique ==
    /\ \A g \in Gids :
          /\ saves[g] <= 1
          /\ Cardinality(RowsOf(trans_global, g)) = saves[g]
    /\ \A a, b \in trans_branch_op :
          (a.gid = b.gid /\ a.branch_id = b.branch_id /\ a.op = b.op) => a = b

C3_Step(w) ==
    /\ \A gid \in Gids :
         \A global \in NewGlobals(gid), branches \in NewBranches(gid) :
            (SaveGlobal(w, global, branches) /\ pc'[w] = "done") =>
               /\ loc'[w].val = "UniqueConflict"
               /\ saves[gid] = 1
               /\ RowsOf(trans_global, gid) # {}
               /\ trans_global' = trans_global
               /\ trans_branch_op' = trans_branch_op
    /\ SaveBranches(w) =>
         LET gid == loc[w].global.gid
             n == Len(loc[w].branches)
         IN
         /\ RowsOf(trans_global, gid) = {}
         /\ Cardinality(RowsOf(trans_global', gid)) = 1
         /\ \A i \in 1..n :
               LET b == loc[w].branches[i] IN
               Cardinality({x \in trans_branch_op' :
                               /\ x.gid = b.gid
                               /\ x.branch_id = b.branch_id
                               /\ x.op = b.op}) = 1

\* C3: for every gid at most one MaySaveNewTrans call returns nil, and
\* every call that finds the gid stored returns ErrUniqueConflict and
\* writes nothing; the stored rows of a gid are exactly one once a call has
\* succeeded, and no (gid, branch_id, op) is stored twice.
C3_IdempotentCreation ==
    [] C3_Unique /\ [][\A w \in Workers : C3_Step(w)]_vars

\* A retry of a registered gid got ErrUniqueConflict; the branches of the
\* first call are there.
C3_Witness ==
    \E w \in Workers :
        /\ pc[w] = "done"
        /\ loc[w].val = "UniqueConflict"
        /\ saves[loc[w].gid] = 1
        /\ Cardinality({b \in trans_branch_op : b.gid = loc[w].gid}) >= 2

\* C4: when no row has the gid with the expected status, the locked
\* append fails with NotFound and leaves the branch rows as they were; the
\* branches are saved only while a row with the gid and the expected
\* status is stored.
C4_AppendNeedsMatchingRow ==
    [][\A w \in Workers :
          /\ \A gid \in Gids, status \in ExpectedStatuses :
               \A branches \in MoreBranches(gid) :
                  (/\ LockSelect(w, gid, status, branches)
                   /\ RowsIn(trans_global, gid, status) = {})
                  => /\ pc'[w] = "done"
                     /\ loc'[w].val = "NotFound"
                     /\ trans_branch_op' = trans_branch_op
                     /\ trans_global' = trans_global
          /\ LockSave(w) =>
               RowsIn(trans_global, loc[w].gid, loc[w].status) # {}]_vars

\* An append found its transaction moved to another status, with branches
\* stored for it.
C4_Witness ==
    \E w \in Workers :
        /\ pc[w] = "done"
        /\ loc[w].val = "NotFound"
        /\ \E r \in trans_global :
              r.gid = loc[w].gid /\ r.status \notin ExpectedStatuses
        /\ \E b \in trans_branch_op : b.gid = loc[w].gid

\* C5: from the locking read of LockGlobalSaveBranches to its commit the
\* stored status of the gid equals the expected status: no
\* ChangeGlobalStatus of another worker takes effect in between.
C5_StatusHeldUnderLock ==
    \A w \in Workers :
        pc[w] = "save" => RowsIn(trans_global, loc[w].gid, loc[w].status) # {}

\* A worker holds the lock while another is about to change the status it
\* expects.
C5_Witness ==
    \E w, v \in Workers :
        /\ pc[w] = "save"
        /\ pc[v] = "holding"
        /\ loc[v].global.gid = loc[w].gid
        /\ loc[v].global.status = loc[w].status

C8_Step(w, newStatus, updates) ==
    LET g == loc[w].global
        match == RowsIn(trans_global, g.gid, g.status)
    IN
    /\ trans_branch_op' = trans_branch_op
    /\ IF match # {}
       THEN /\ pc'[w] = "holding"
            /\ trans_global' = (trans_global \ match) \cup
                  {[r EXCEPT !.status = newStatus,
                             !.update_time = IF "update_time" \in updates
                                             THEN now ELSE @] : r \in match}
       ELSE /\ pc'[w] = "failed"
            /\ loc'[w].val = "NotFound"
            /\ trans_global' = trans_global

\* C8: ChangeGlobalStatus sets the stored status to newStatus exactly when
\* a row with the gid is stored in the expected old status; then no other
\* column but update_time and no other row changes; otherwise it fails with
\* NotFound and leaves every global and branch row unchanged.
C8_CompareAndSwap ==
    [][\A w \in Workers, newStatus \in NewStatuses, updates \in UpdateColumns :
          ChangeGlobalStatus(w, newStatus, updates) =>
             C8_Step(w, newStatus, updates)]_vars

\* A call failed with NotFound against a row in another status.
C8_Witness ==
    \E w \in Workers :
        /\ pc[w] = "failed"
        /\ loc[w].val = "NotFound"
        /\ \E r \in trans_global : r.gid = loc[w].global.gid

\* =====================================================================
\* Claims about LockOneGlobalTrans, checked under SpecClaim
\* =====================================================================

\* The rows a statement changed, and their new versions.
Changed == trans_global \ trans_global'
Fresh == trans_global' \ trans_global

\* C1 as stated: no transaction is returned to two callers that claim
\* concurrently (within the same second).
C1_NoRowReturnedTwice ==
    \A g \in Gids : Cardinality({x.w : x \in returned[g]}) <= 1

C1_DistinctWithinRetryInterval ==
    \A g \in Gids : \A a, b \in returned[g] :
        a.w # b.w => (a.expire > retryInterval \/ b.expire > retryInterval)

C1_ClaimStep ==
    \A w \in Workers :
      /\ \A expireIn \in 0..MaxExpireIn :
           /\ LockOneNone(w, expireIn) =>
                ~ \E r \in trans_global :
                     /\ r.status \in {"prepared", "aborting", "submitted"}
                     /\ r.next_cron_time < now + expireIn \div Second
           /\ LockOneUpdate(w, expireIn) =>
                /\ Cardinality(Changed) = 1
                /\ \A r \in Changed :
                     /\ r.gid = loc'[w].gid
                     /\ r.status \in {"prepared", "aborting", "submitted"}
                     /\ r.next_cron_time < now + expireIn \div Second
      /\ LockOneReadBack(w) => loc'[w].val \in {loc[w].gid, "panic"}

\* C1 (amended): a caller gets nil only when no row with an active status
\* has nextCronTime before its cutoff now + leaseExtension; a successful
\* call claims exactly one such row and is returned that row or fails; and
\* two callers that claim within the same second are returned the same row
\* only if one of them passed a leaseExtension above the retry interval.
C1_ExclusiveClaim ==
    [] C1_DistinctWithinRetryInterval /\ [][C1_ClaimStep]_vars

\* Two callers within one second, two due rows: each got a row of its own.
C1_Witness ==
    \E a \in returned["g1"], b \in returned["g2"] :
        /\ a.w # b.w
        /\ a.expire <= retryInterval
        /\ b.expire <= retryInterval

\* C9 as stated: a claimed row has an active status and a nextCronTime
\* strictly before the time of the call, whatever leaseExtension is passed.
C9_ClaimsOnlyPastDue ==
    [][\A w \in Workers, expireIn \in 0..MaxExpireIn :
          LockOneUpdate(w, expireIn) =>
             \A r \in Changed :
                /\ r.status \in {"prepared", "aborting", "submitted"}
                /\ r.next_cron_time < now]_vars

\* C9 (amended): the cutoff is now + leaseExtension (in whole seconds): a
\* claimed row has status prepared, aborting or submitted and a
\* nextCronTime strictly before now + leaseExtension.
C9_ClaimsOnlyBeforeCutoff ==
    [][\A w \in Workers, expireIn \in 0..MaxExpireIn :
          LockOneUpdate(w, expireIn) =>
             \A r \in Changed :
                /\ r.status \in {"prepared", "aborting", "submitted"}
                /\ r.next_cron_time < now + expireIn \div Second]_vars

\* A claim made with a positive leaseExtension is awaiting its read-back.
C9_Witness ==
    \E w \in Workers :
        /\ pc[w] = "readback"
        /\ loc[w].expire > 0
        /\ \E r \in trans_global : r.owner = loc[w].owner /\ r.gid = loc[w].gid

\* The due-predicate of a call made now with argument expireIn.
DueFor(r, expireIn) ==
    /\ r.status \in {"prepared", "aborting", "submitted"}
    /\ r.next_cron_time < now + expireIn \div Second

\* C10 as stated: right after a successful claim the row matches the
\* due-predicate of no call, for every retry interval and leaseExtension.
C10_ClaimedRowDueForNoCall ==
    [][\A w \in Workers, expireIn \in 0..MaxExpireIn :
          LockOneUpdate(w, expireIn) =>
             \A r \in Fresh : \A e \in 0..MaxExpireIn : ~ DueFor(r, e)]_vars

\* C10 (amended): a successful claim sets the row's nextCronTime to
\* now + retryInterval; right after it the row matches the due-predicate of
\* exactly the calls whose leaseExtension (in whole seconds) exceeds the
\* retry interval, and of no call with leaseExtension <= retryInterval.
C10_ClaimedRowDueOnlyBeyondRetryInterval ==
    [][\A w \in Workers, expireIn \in 0..MaxExpireIn :
          LockOneUpdate(w, expireIn) =>
             \A r \in Fresh :
                /\ r.owner = loc'[w].owner
                /\ r.next_cron_time = now + retryInterval
                /\ \A e \in 0..MaxExpireIn :
                     DueFor(r, e) <=> e \div Second > retryInterval]_vars

\* A claimed row, still as the claim left it and not yet read back.
C10_Witness ==
    \E w \in Workers : \E r \in trans_global :
        /\ pc[w] = "readback"
        /\ r.owner = loc[w].owner
        /\ loc[w].at = now
        /\ r.next_cron_time = now + retryInterval

\* =====================================================================
\* Claims about ResetCronTime, checked under SpecRepair
\* =====================================================================

\* The rows ResetCronTime is after, for a timeout in whole seconds.
Offending(table, time, timeoutSecond) ==
    {r \in table : /\ r.status \in {"prepared", "aborting", "submitted"}
                   /\ r.next_cron_time > time + timeoutSecond}

C7_UpdateStep(w, timeout, limit) ==
    LET ts == timeout \div Second
        off == Offending(trans_global, now, ts)
        n == IF limit < Cardinality(off) THEN limit ELSE Cardinality(off)
    IN
    /\ Changed \subseteq off
    /\ Cardinality(Changed) = n
    /\ Fresh = {[r EXCEPT !.next_cron_time = now] : r \in Changed}
    /\ pc'[w] = "count" => loc'[w].succeedCount = n
    /\ pc'[w] = "done" =>
          /\ loc'[w].succeedCount = n
          /\ loc'[w].hasRemaining = (Offending(trans_global', now', ts) # {})

C7_CountStep(w) ==
    /\ trans_global' = trans_global
    /\ pc'[w] = "done"
    /\ loc'[w].succeedCount = loc[w].succeedCount
    /\ loc'[w].hasRemaining =
          (Offending(trans_global', now', loc[w].timeoutSecond) # {})

\* C7: ResetCronTime resets nextCronTime to now for min(limit, number of
\* offending rows) offending rows and for no other row; the count it
\* reports is the number of rows reset, and hasRemaining is true exactly
\* when an offending row is left when the call returns.
C7_RepairResult ==
    [][\A w \in Workers :
          /\ \A timeout \in 0..MaxExpireIn, limit \in 1..MaxLimit :
                ResetUpdate(w, timeout, limit) => C7_UpdateStep(w, timeout, limit)
          /\ ResetCount(w) => C7_CountStep(w)]_vars

\* A full page was reset and the existence check found nothing left.
C7_Witness ==
    \E w \in Workers :
        /\ pc[w] = "done"
        /\ loc[w].succeedCount = 2
        /\ ~ loc[w].hasRemaining

\* =====================================================================
\* Claims about ScanTransGlobalStores, checked under SpecScan
\* =====================================================================

\* The ids of the pages a worker has got so far.
ScannedIDs(w) == [i \in 1..Len(loc[w].globals) |-> loc[w].globals[i].id]

\* Four rows read by pages of two: the third call finds nothing left.
C6_Witness ==
    \E w \in Workers :
        /\ pc[w] = "done"
        /\ loc[w].limit = 2
        /\ loc[w].calls = 3
        /\ Len(loc[w].globals) = 4

\* C6: once the sequence of calls has ended, which it does with the
\* position cleared, the pages together hold every stored row exactly
\* once, in strictly decreasing id order, and K \div L + 1 calls were made
\* for K rows and limit L; until then the position is not empty and the
\* pages hold the rows above it.
C6_PaginationComplete ==
    \A w \in Workers :
        LET ids == ScannedIDs(w)
            n == Len(ids)
            K == Cardinality(trans_global)
        IN
        /\ \A i \in 1..n : \A j \in 1..n : i < j => ids[i] > ids[j]
        /\ pc[w] = "done" =>
              /\ loc[w].position = <<>>
              /\ {ids[i] : i \in 1..n} = {r.id : r \in trans_global}
              /\ n = K
              /\ loc[w].calls = (K \div loc[w].limit) + 1
        /\ pc[w] = "scan" =>
              /\ loc[w].position # <<>>
              /\ n = loc[w].calls * loc[w].limit
              /\ {ids[i] : i \in 1..n} =
                    {r.id : r \in trans_global} \ (0..(ids[n] - 1))

\* =====================================================================
\* Claims about TouchCronTime, checked under SpecTouch
\* =====================================================================

\* C13 as stated: no step of the workers that change a status or touch
\* the cron time lowers the stored next_cron_time of a transaction.
C13_NeverLowered ==
    [][\A r \in trans_global, q \in trans_global' :
          q.gid = r.gid => q.next_cron_time >= r.next_cron_time]_vars

C13_Step ==
    /\ \A r \in trans_global, q \in trans_global' :
          (q.gid = r.gid /\ q.next_cron_time < r.next_cron_time) =>
             \E w \in Workers, nextCronInterval \in TouchIntervals :
                \E nextCronTime \in TouchTimes :
                   /\ TouchCronTime(w, nextCronInterval, nextCronTime)
                   /\ WhereTouch(r, loc[w].global)
                   /\ nextCronTime < r.next_cron_time
                   /\ q.next_cron_time = nextCronTime
    /\ \A w \in Workers, newStatus \in NewStatuses, updates \in UpdateColumns :
          ChangeGlobalStatus(w, newStatus, updates) =>
             \A r \in trans_global, q \in trans_global' :
                q.gid = r.gid => q.next_cron_time = r.next_cron_time

\* C13: ChangeGlobalStatus never changes the stored next_cron_time; a
\* step of these workers lowers it only when it is a TouchCronTime that
\* matches the row and is given a time earlier than the stored one, and
\* then the stored time becomes the time given.
C13_LoweredOnlyByEarlierTouch == [][C13_Step]_vars

\* One worker rescheduled the transaction to time 2 at time 0, the other
\* to time 1 at time 1: the stored time went down.
C13_Witness ==
    \E w, v \in Workers :
        /\ loc[v].val = "touched" /\ loc[v].rowsAffected = 1
        /\ loc[v].global.next_cron_time = 2 /\ loc[v].global.update_time = 0
        /\ loc[w].val = "touched" /\ loc[w].rowsAffected = 1
        /\ loc[w].global.next_cron_time = 1 /\ loc[w].global.update_time = 1
        /\ loc[w].global.gid = loc[v].global.gid
        /\ \E r \in trans_global :
              r.gid = loc[w].global.gid /\ r.next_cron_time = 1

C14_Step(w, nextCronInterval, nextCronTime) ==
    LET g == loc[w].global
        match == RowsIn(trans_global, g.gid, g.status)
    IN
    /\ pc'[w] = pc[w]
    /\ loc'[w].val = "touched"
    /\ trans_branch_op' = trans_branch_op
    /\ trans_global' = (trans_global \ match) \cup
          {[r EXCEPT !.next_cron_time = nextCronTime,
                     !.next_cron_interval = nextCronInterval,
                     !.update_time = now] : r \in match}

\* C14: TouchCronTime sets next_cron_time and next_cron_interval to the
\* values given and update_time to now on the row that has the record's
\* gid and status, leaving its status and owner and every other row as
\* they were; when no row has that gid and status it changes no row, and
\* in neither case does it fail.
C14_BestEffortTouch ==
    [][\A w \in Workers, nextCronInterval \in TouchIntervals :
          \A nextCronTime \in TouchTimes :
             TouchCronTime(w, nextCronInterval, nextCronTime) =>
                C14_Step(w, nextCronInterval, nextCronTime)]_vars

\* A touch with a record read before another worker changed the status:
\* it matched nothing, and returned.
C14_Witness ==
    \E w \in Workers :
        /\ pc[w] = "holding"
        /\ loc[w].val = "touched"
        /\ loc[w].rowsAffected = 0
        /\ \E r \in trans_global :
              /\ r.gid = loc[w].global.gid
              /\ r.status # loc[w].global.status
              /\ r.next_cron_interval # loc[w].global.next_cron_interval

\* C20 as stated: after a ChangeGlobalStatus that failed with NotFound the
\* caller's record holds the status it had before the call, and a
\* TouchCronTime with that record changes no stored row.
C20_FailedChangeKeepsOldStatus ==
    /\ [](\A w \in Workers :
            pc[w] = "failed" => loc[w].global.status = loc[w].status)
    /\ [][\A w \in Workers, nextCronInterval \in TouchIntervals :
             \A nextCronTime \in TouchTimes :
                (pc[w] = "failed" /\
                 TouchCronTime(w, nextCronInterval, nextCronTime))
                => trans_global' = trans_global]_vars


\* =====================================================================
\* Further claims about MaySaveNewTrans, checked under Spec
\* =====================================================================

\* While a MaySaveNewTrans transaction that inserted the global is open,
\* no row of its gid is there to be read.
C11_OpenInvisible ==
    \A w \in Workers :
        pc[w] = "branches" => RowsOf(trans_global, loc[w].global.gid) = {}

C11_Step(w) ==
    /\ SaveBranches(w) =>
         LET gid == loc[w].global.gid IN
         /\ RowsOf(trans_global, gid) = {}
         /\ RowsOf(trans_global', gid) # {}
         /\ \A i \in 1..Len(loc[w].branches) :
               \E x \in trans_branch_op' :
                  BranchKey(x) = BranchKey(loc[w].branches[i])
    /\ \A gid \in Gids :
         \A global \in NewGlobals(gid), branches \in NewBranches(gid) :
            SaveGlobal(w, global, branches) =>
               /\ trans_global' = trans_global
               /\ trans_branch_op' = trans_branch_op
    /\ \A gid \in Gids :
         (FindTransGlobalStore(w, gid) /\ pc'[w] = "holding") =>
            /\ saves[gid] >= 1
            /\ \A v \in Workers :
                  ~ (pc[v] = "branches" /\ loc[v].global.gid = gid)

\* C11: the global row of a gid becomes readable in the very step that
\* makes the branches passed with it readable, the commit of
\* MaySaveNewTrans, and not before; a FindTransGlobalStore that finds the
\* row runs after that commit; a call that returns ErrUniqueConflict has
\* made no row readable.
C11_CreationAtomic ==
    [] C11_OpenInvisible /\ [][\A w \in Workers : C11_Step(w)]_vars

\* A reader found nothing for a gid whose creation, with two branches, is
\* between its insert of the global and its commit.
C11_Witness ==
    \E w, v \in Workers :
        /\ pc[w] = "branches"
        /\ loc[w].val = "inserted"
        /\ Len(loc[w].branches) = 2
        /\ pc[v] = "done"
        /\ loc[v].val = "nil"
        /\ loc[v].gid = loc[w].global.gid

\* =====================================================================
\* Claims about the branch rows, checked under SpecBranches
\* =====================================================================

\* The branch rows of a gid.
BranchesOf(table, gid) == {b \in table : b.gid = gid}

\* A worker is between the locking read of LockGlobalSaveBranches on gid
\* and its commit.
HoldsLock(w, gid) == pc[w] = "save" /\ loc[w].gid = gid

\* C12 as stated: after the creation, the branch rows of a gid are written
\* only by LockGlobalSaveBranches while it holds the lock, and by nobody
\* while another worker's LockGlobalSaveBranches on that gid holds it.
C12_BranchWritesOnlyUnderLock ==
    [][\A g \in Gids :
          BranchesOf(trans_branch_op', g) # BranchesOf(trans_branch_op, g) =>
             /\ \E w \in Workers :
                   \/ HoldsLock(w, g) /\ LockSave(w)
                   \/ SaveBranches(w)
             /\ \A v \in Workers : HoldsLock(v, g) => pc'[v] # "save"]_vars

C12_Step ==
    \A g \in Gids :
       BranchesOf(trans_branch_op', g) # BranchesOf(trans_branch_op, g) =>
          \E w \in Workers :
             \/ /\ LockSave(w)
                /\ HoldsLock(w, g)
                /\ RowsIn(trans_global, g, loc[w].status) # {}
                /\ \A v \in Workers \ {w} : ~ HoldsLock(v, g)
             \/ /\ SaveBranches(w)
                /\ loc[w].global.gid = g
                /\ \A v \in Workers : ~ HoldsLock(v, g)
             \/ \E updates \in BranchColumns, branches \in MoreBranches(g) :
                   UpdateBranches(w, branches, updates)

\* C12: LockGlobalSaveBranches writes the branch rows of a gid only while
\* it alone holds the lock on the row with that gid and the expected
\* status, and MaySaveNewTrans writes them while nobody holds that lock;
\* every other change of the branch rows of a gid is an UpdateBranches,
\* which runs whether or not the lock is held.
C12_LockedWritesAndFreeUpsert == [][C12_Step]_vars

\* An UpdateBranches has written a branch of a gid, and another worker is
\* between its locking read on that gid and its commit.
C12_Witness ==
    \E w, v \in Workers :
        /\ HoldsLock(w, loc[v].gid)
        /\ pc[v] = "done"
        /\ loc[v].val = "updated"
        /\ \E b \in trans_branch_op :
              /\ BranchKey(b) = BranchKey(Head(loc[v].branches))
              /\ b.status = Head(loc[v].branches).status

C15_UniqueIDs ==
    \A a, b \in trans_branch_op : a.id = b.id => a = b

C15_Step ==
    /\ \A b \in trans_branch_op :
          \E x \in trans_branch_op' :
             /\ BranchKey(x) = BranchKey(b)
             /\ x.id = b.id
    /\ \A x \in trans_branch_op' :
          (\A b \in trans_branch_op : BranchKey(b) # BranchKey(x)) =>
             \A b \in BranchesOf(trans_branch_op, x.gid) : x.id > b.id
    /\ \A w \in Workers, g \in Gids, updates \in BranchColumns :
          \A branches \in MoreBranches(g) :
             UpdateBranches(w, branches, updates) =>
                \A b \in trans_branch_op :
                   \/ /\ BranchKey(b) # BranchKey(Head(branches))
                      /\ b \in trans_branch_op'
                   \/ /\ BranchKey(b) = BranchKey(Head(branches))
                      /\ [b EXCEPT !.status =
                             IF "status" \in updates
                             THEN Head(branches).status ELSE @]
                            \in trans_branch_op'
    /\ \A w \in Workers, g \in Gids :
          FindBranches(w, g) =>
             LET found == loc'[w].branches IN
             /\ \A i \in 1..Len(found) : \A j \in 1..Len(found) :
                   i < j => found[i].id < found[j].id
             /\ {found[i] : i \in 1..Len(found)} =
                   BranchesOf(trans_branch_op, g)

\* C15: FindBranches returns the branch rows of the gid by ascending id;
\* no step changes the id of a stored branch, a branch stored later gets
\* an id above those of every branch of its gid already stored, and an
\* UpdateBranches overwrites, of a branch whose key is stored, the listed
\* columns only: the branches found keep their relative order and later
\* ones come after them.
C15_BranchOrderStable == [] C15_UniqueIDs /\ [][C15_Step]_vars

\* Three branches found: the second was rewritten after the third was
\* appended, and kept its place.
C15_Witness ==
    \E w \in Workers :
        /\ pc[w] = "done"
        /\ loc[w].val = "branches"
        /\ Len(loc[w].branches) = 3
        /\ loc[w].branches[1].op = "compensate"
        /\ loc[w].branches[2].status = "succeed"
        /\ loc[w].branches[3].branch_id = "02"

\* =====================================================================
\* Further claims about LockOneGlobalTrans, checked under SpecClaim
\* =====================================================================

\* C16 as stated: the read-back of a LockOneGlobalTrans whose update
\* claimed a row finds that row, still with this caller's owner token, and
\* the call returns it, whatever the other callers do in between.
C16_ReadBackReturnsClaimedRow ==
    [][\A w \in Workers :
          LockOneReadBack(w) =>
             /\ loc'[w].val = loc[w].gid
             /\ \E r \in trans_global :
                   r.gid = loc[w].gid /\ r.owner = loc[w].owner]_vars

\* =====================================================================
\* Claims about LockOneGlobalTrans, checked under SpecLive
\* =====================================================================

\* A transaction is overdue in the hands of an owner: it is in a scheduled
\* status and its next_cron_time has passed.
Overdue(gid, owner) ==
    \E r \in trans_global :
        /\ r.gid = gid
        /\ r.owner = owner
        /\ r.status \in CronStatuses
        /\ r.next_cron_time < now

\* A call has claimed the transaction from that owner.
ClaimedFrom(gid, owner) ==
    \E r \in trans_global : r.gid = gid /\ r.owner # owner

\* C17 as stated: a transaction that stays in a scheduled status is,
\* once its next_cron_time has passed, eventually claimed again, while the
\* workers keep polling and the clock keeps running.
C17_OverdueEventuallyClaimed ==
    \A gid \in Gids :
       \A owner \in 0..(Cardinality(Gids) + Cardinality(Workers) + 1) :
          Overdue(gid, owner) ~> ClaimedFrom(gid, owner)

\* =====================================================================
\* Claims about both scheduling methods, checked under SpecSchedule
\* =====================================================================

C18_Step ==
    /\ trans_branch_op' = trans_branch_op
    /\ \A r \in Changed :
          /\ r.status \in CronStatuses
          /\ \E q \in Fresh :
                q = [r EXCEPT !.owner = q.owner,
                              !.next_cron_time = q.next_cron_time]
    /\ Cardinality(Fresh) = Cardinality(Changed)
    /\ \A w \in Workers, expireIn \in ScheduleDurations :
          LockOneUpdate(w, expireIn) => Cardinality(Changed) <= 1
    /\ \A w \in Workers, timeout \in ScheduleDurations, limit \in 1..MaxLimit :
          ResetUpdate(w, timeout, limit) =>
             \A r \in Changed :
                \E q \in Fresh :
                   q = [r EXCEPT !.next_cron_time = q.next_cron_time]

\* C18: a step of LockOneGlobalTrans or ResetCronTime changes no branch
\* row and no global row whose status is not prepared, aborting or
\* submitted; of a row it changes it leaves every column but owner and
\* next_cron_time as it was; LockOneGlobalTrans changes at most one row,
\* ResetCronTime changes next_cron_time only.
C18_SchedulingFrame == [][C18_Step]_vars

\* A claim and a repair have run, and the finished transaction, due and
\* overdue by its times, is as it was stored.
C18_Witness ==
    \E w, v \in Workers :
        /\ pc[w] = "done" /\ loc[w].val = "g1"
        /\ pc[v] = "done" /\ loc[v].succeedCount = 1
        /\ \E r \in trans_global :
              /\ r.status = "succeed"
              /\ r.owner = NoOwner
              /\ r.next_cron_time = 1
              /\ now = 0

\* =====================================================================
\* Claims about ScanTransGlobalStores, checked under SpecScanCreate
\* =====================================================================

C19_Scanned ==
    \A w \in Workers :
        LET ids == ScannedIDs(w)
            n == Len(ids)
        IN
        /\ \A i \in 1..n : \A j \in 1..n : i < j => ids[i] > ids[j]
        /\ pc[w] = "done" /\ loc[w].calls > 0 =>
              loc[w].atStart \subseteq {ids[i] : i \in 1..n}

\* C19: with MaySaveNewTrans calls running between the pages, the pages
\* of a scan are in strictly decreasing id order, so hold no row twice,
\* and when the scan has ended they hold every row that was stored when it
\* started; a ScanTransGlobalStores call changes no stored row.
C19_ScanStableUnderCreation ==
    /\ [] C19_Scanned
    /\ [][\A w \in Workers, limit \in 1..MaxScanLimit :
             ScanTransGlobalStores(w, limit) =>
                /\ trans_global' = trans_global
                /\ trans_branch_op' = trans_branch_op]_vars

\* A scan of three pages has ended, and a transaction registered after its
\* first page is stored: the scan does not hold it.
C19_Witness ==
    \E w \in Workers :
        /\ pc[w] = "done"
        /\ loc[w].calls = 3
        /\ loc[w].atStart # {}
        /\ \E r \in trans_global :
              /\ r.id \notin loc[w].atStart
              /\ \A i \in 1..Len(loc[w].globals) : loc[w].globals[i].id # r.id

=============================================================================
